---- MODULE Spec2Model ----
(***************************************************************************)
(* A model of reedbed's Green's-function core (lib/src/greens.rs): the     *)
(* Layer / MultiLayer data model, MultiLayer::new, the two Beam            *)
(* implementations and the temperature_rise wrappers.                      *)
(*                                                                         *)
(* rug::Float values are modelled by their exact real value.  A value is   *)
(* kept in closed form: a finite sum of terms                              *)
(*        co * exp(ex) * erf(sqrt(erf)) * (1 - marcum_q(mq))               *)
(* with rational co and ex, so that exp(a) * exp(b) = exp(a + b) and the   *)
(* cancellation of equal erf terms are computed, not assumed.  Rounding to *)
(* the precision argument is not modelled.                                 *)
(***************************************************************************)
EXTENDS Integers, Sequences, FiniteSets

\* ------------------------------------------------------------------------
\* Bounds of the model
\* ------------------------------------------------------------------------

\* The largest number of layers handed to MultiLayer::new.
MaxLayers == 3

\* The deepest top depth z0 of an input layer (z0 ranges over 0..MaxZ0).
MaxZ0 == 2

\* The largest number of layers of a MultiLayer that is evaluated.
MaxStack == 2

\* ------------------------------------------------------------------------
\* Exact rational arithmetic: <<n, d>> with d > 0 and gcd(|n|, d) = 1
\* ------------------------------------------------------------------------

Abs(n) == IF n < 0 THEN -n ELSE n

RECURSIVE GCD(_, _)
GCD(a, b) == IF b = 0 THEN a ELSE GCD(b, a % b)

RNorm(n, d) ==
    LET s == IF d < 0 THEN -1 ELSE 1
        g == GCD(Abs(n), Abs(d))
    IN  IF n = 0 THEN <<0, 1>> ELSE <<(s * n) \div g, (s * d) \div g>>

RInt(n) == <<n, 1>>
RZero == <<0, 1>>
ROne == <<1, 1>>
RAdd(a, b) == RNorm(a[1] * b[2] + b[1] * a[2], a[2] * b[2])
RNeg(a) == <<-a[1], a[2]>>
RMul(a, b) == RNorm(a[1] * b[1], a[2] * b[2])
RDiv(a, b) == RNorm(a[1] * b[2], a[2] * b[1])
RSign(a) == IF a[1] > 0 THEN 1 ELSE IF a[1] < 0 THEN -1 ELSE 0

\* ------------------------------------------------------------------------
\* Closed-form values
\* ------------------------------------------------------------------------

\* No erf (resp. marcum_q) factor in a term.
NoFactor == <<>>

Basis(t) == [ex |-> t.ex, erf |-> t.erf, mq |-> t.mq]

VZero == {}

\* The value of a rational.
VRat(q) ==
    IF q = RZero THEN VZero
    ELSE {[co |-> q, ex |-> RZero, erf |-> NoFactor, mq |-> NoFactor]}

VInt(n) == VRat(RInt(n))

Coef(V, b) ==
    IF \E t \in V : Basis(t) = b
    THEN (CHOOSE t \in V : Basis(t) = b).co
    ELSE RZero

\* Float += Float
VAdd(A, B) ==
    LET bs == {Basis(t) : t \in A \cup B}
        sum(b) == RAdd(Coef(A, b), Coef(B, b))
    IN  IF A = {} THEN B
        ELSE IF B = {} THEN A
        ELSE {[co |-> sum(b), ex |-> b.ex, erf |-> b.erf, mq |-> b.mq] :
                b \in {x \in bs : sum(x) # RZero}}

\* Float *= rational
VScale(A, q) ==
    IF q = RZero THEN VZero ELSE {[t EXCEPT !.co = RMul(@, q)] : t \in A}

VNeg(A) == VScale(A, RInt(-1))
VSub(A, B) == VAdd(A, VNeg(B))

\* The product of two terms; at most one of them carries an erf factor and
\* at most one a marcum_q factor in every product the program forms.
TermMul(a, b) ==
    [co |-> RMul(a.co, b.co),
     ex |-> RAdd(a.ex, b.ex),
     erf |-> IF a.erf = NoFactor THEN b.erf ELSE a.erf,
     mq |-> IF a.mq = NoFactor THEN b.mq ELSE a.mq]

RECURSIVE VMulSet(_, _)
VMulSet(A, B) ==
    IF B = {} THEN VZero
    ELSE LET b == CHOOSE x \in B : TRUE
         IN  VAdd({TermMul(a, b) : a \in A}, VMulSet(A, B \ {b}))

\* Float *= Float
VMul(A, B) == VMulSet(A, B)

\* Float::exp_mut on a rational argument
VExp(q) == {[co |-> ROne, ex |-> q, erf |-> NoFactor, mq |-> NoFactor]}

\* ------------------------------------------------------------------------
\* Quantities that depend on the time
\* ------------------------------------------------------------------------

\* Before exp or erf is taken, a quantity is co * sqrt(rad) * tau^(ord/2):
\* co rational, rad a square-free positive integer, and tau the time unit.
\* An exact time has ord = 0.  ord # 0 arises from the time Vanishing
\* only: a positive time smaller than every other positive quantity, which
\* stands for t -> 0+.  exp and erf of a quantity of order ord # 0 are
\* their one-sided limits, so a value computed at the time Vanishing is the
\* limit of the value as t -> 0+.

Num(co, rad, ord) == [co |-> co, rad |-> rad, ord |-> ord]
NZero == Num(RZero, 1, 0)
NRat(q) == Num(q, 1, 0)
NInt(n) == NRat(RInt(n))

Vanishing == Num(ROne, 1, 2)

\* *tp == 0
IsZero(x) == x.co = RZero

\* Float *= rational
NScale(x, q) == IF q = RZero \/ IsZero(x) THEN NZero ELSE [x EXCEPT !.co = RMul(@, q)]

\* The largest k with k * k dividing m.
SquarePart(m) == CHOOSE k \in 1..m : /\ m % (k * k) = 0
                                      /\ \A j \in (k + 1)..m : m % (j * j) # 0

\* Float::sqrt_mut of a positive rational multiple of tau^ord:
\* sqrt(n / d) = sqrt(n * d) / d = (k / d) * sqrt(n * d / k^2).
NSqrt(x) ==
    IF IsZero(x) THEN NZero
    ELSE LET m == x.co[1] * x.co[2]
             k == SquarePart(m)
         IN  Num(RNorm(k, x.co[2]), m \div (k * k), x.ord \div 2)

\* Float::recip_mut: 1 / (co * sqrt(rad)) = sqrt(rad) / (co * rad).
NRecip(x) == Num(RDiv(ROne, RMul(x.co, RInt(x.rad))), x.rad, -x.ord)

\* Float += Float.  Of two quantities of different order in tau the one of
\* lower order dominates; the other is infinitely smaller.
NAdd(x, y) ==
    IF IsZero(x) THEN y
    ELSE IF IsZero(y) THEN x
    ELSE IF x.ord < y.ord THEN x
    ELSE IF y.ord < x.ord THEN y
    ELSE IF RAdd(x.co, y.co) = RZero THEN NZero
    ELSE Num(RAdd(x.co, y.co), x.rad, x.ord)

\* Float::exp_mut.  Every argument the program takes exp of is rational
\* (rad = 1) and, when it is not of order 0, either vanishes or tends to
\* minus infinity.
NExp(x) ==
    IF IsZero(x) \/ x.ord > 0 THEN VInt(1)
    ELSE IF x.ord < 0 /\ RSign(x.co) < 0 THEN VZero
    ELSE VExp(x.co)

\* Float::erf_mut.  erf is odd and erf(0) = 0; the erf factor of a term is
\* kept as the square of its (positive) argument.
NErf(x) ==
    IF IsZero(x) \/ x.ord > 0 THEN VZero
    ELSE IF x.ord < 0 THEN VInt(RSign(x.co))
    ELSE {[co |-> RInt(RSign(x.co)), ex |-> RZero,
           erf |-> <<RMul(RMul(x.co, x.co), RInt(x.rad))>>, mq |-> NoFactor]}

\* utilities::marcum_q(order, a, b, precision): the generalized Marcum
\* Q-function, kept as a factor named by its arguments.
marcum_q(order, a, b) ==
    {[co |-> ROne, ex |-> RZero, erf |-> NoFactor, mq |-> <<order, a, b>>]}

\* ------------------------------------------------------------------------
\* Layer and MultiLayer
\* ------------------------------------------------------------------------

Layer(d, z0, mu_a, e0) == [d |-> d, z0 |-> z0, mu_a |-> mu_a, e0 |-> e0]

None == [some |-> FALSE, layers |-> <<>>]
Some(layers) == [some |-> TRUE, layers |-> layers]

\* InsertByZ0 that overwrites the element it should shift.
RECURSIVE InsertByZ0Overwrite(_, _)
InsertByZ0Overwrite(sorted, layer) ==
    IF sorted = <<>> THEN <<layer>>
    ELSE IF layer.z0 < Head(sorted).z0 THEN <<layer>> \o Tail(sorted)
    ELSE <<Head(sorted)>> \o InsertByZ0Overwrite(Tail(sorted), layer)

\* Vec::sort_by with total_cmp on z0: a stable sort, modelled as a stable
\* insertion sort (an element goes after every element whose z0 is not
\* greater than its own).
RECURSIVE InsertByZ0(_, _)
InsertByZ0(sorted, layer) ==
    IF sorted = <<>> THEN <<layer>>
    ELSE IF layer.z0 < Head(sorted).z0 THEN <<layer>> \o sorted
    ELSE <<Head(sorted)>> \o InsertByZ0(Tail(sorted), layer)

RECURSIVE SortByZ0(_)
SortByZ0(layers) ==
    IF layers = <<>> THEN <<>>
    ELSE InsertByZ0(SortByZ0(SubSeq(layers, 1, Len(layers) - 1)),
                    layers[Len(layers)])

\* b = d; b *= mu_a; b *= -1; b.exp_mut()
Attenuation(layer) == VExp(RInt(-1 * (layer.d * layer.mu_a)))

\* z0 = layer.z0; z0 += layer.d
Bottom(layer) == layer.z0 + layer.d

\* Propagate with the overlap test z0 <= bottom in place of z0 < bottom:
\* layers in exact contact are rejected.
RECURSIVE PropagateRejectContact(_, _, _, _)
PropagateRejectContact(layers, i, z0, e0) ==
    IF i > Len(layers) THEN Some(layers)
    ELSE IF layers[i].z0 <= z0 THEN None
    ELSE PropagateRejectContact([layers EXCEPT ![i].e0 = e0], i + 1,
                                Bottom(layers[i]),
                                VMul(e0, Attenuation(layers[i])))

\* Propagate with the statements of the loop body in another order: the
\* carried irradiance is attenuated by the layer before it is stored in it.
RECURSIVE PropagateOwn(_, _, _, _)
PropagateOwn(layers, i, z0, e0) ==
    IF i > Len(layers) THEN Some(layers)
    ELSE IF layers[i].z0 < z0 THEN None
    ELSE PropagateOwn(
            [layers EXCEPT ![i].e0 = VMul(e0, Attenuation(layers[i]))],
            i + 1, Bottom(layers[i]), VMul(e0, Attenuation(layers[i])))

\* The loop over layers.iter_mut().skip(1): i is the index of the layer the
\* loop is at, z0 and e0 the carried bottom depth and irradiance.
RECURSIVE Propagate(_, _, _, _)
Propagate(layers, i, z0, e0) ==
    IF i > Len(layers) THEN Some(layers)
    ELSE IF layers[i].z0 < z0 THEN None
    ELSE Propagate([layers EXCEPT ![i].e0 = e0], i + 1,
                   Bottom(layers[i]),
                   VMul(e0, Attenuation(layers[i])))

\* MultiLayer::new without the sort.
MultiLayer_new_unsorted(input_layers) ==
    LET layers == input_layers
    IN  IF layers = <<>> THEN Some(layers)
        ELSE Propagate(layers, 2, Bottom(layers[1]),
                       VMul(layers[1].e0, Attenuation(layers[1])))

MultiLayer_new(input_layers) ==
    LET layers == SortByZ0(input_layers)
    IN  IF layers = <<>> THEN Some(layers)
        ELSE Propagate(layers, 2, Bottom(layers[1]),
                       VMul(layers[1].e0, Attenuation(layers[1])))

\* ------------------------------------------------------------------------
\* Beams
\* ------------------------------------------------------------------------

ThermalProperties(rho, c, k) == [rho |-> rho, c |-> c, k |-> k]

LargeBeam == [kind |-> "LargeBeam", radius |-> 0]
FlatTopBeam(radius) == [kind |-> "FlatTopBeam", radius |-> radius]

\* alpha = k; alpha /= rho; alpha /= c
Alpha(thermal_properties) ==
    RDiv(RDiv(RInt(thermal_properties.k), RInt(thermal_properties.rho)),
         RInt(thermal_properties.c))

\* term_1 = mu_a; *= e0; /= rho; /= c; /= 2.0
Term1(thermal_properties, layer) ==
    VScale(VScale(VScale(VMul(VInt(layer.mu_a), layer.e0),
                         RDiv(ROne, RInt(thermal_properties.rho))),
                  RDiv(ROne, RInt(thermal_properties.c))),
           RDiv(ROne, RInt(2)))

\* term_2 = z; -= z0; *= mu_a; *= -1; exp_mut
Term2(layer, z) == VExp(RInt(-1 * ((z - layer.z0) * layer.mu_a)))

\* term_3 = mu_a; square_mut; *= tp; *= alpha; exp_mut
Term3(thermal_properties, layer, tp) ==
    NExp(NScale(NScale(tp, RInt(layer.mu_a * layer.mu_a)),
                Alpha(thermal_properties)))

\* reciprocal_sqrt = alpha; *= tp; *= 4.0; sqrt_mut; recip_mut
ReciprocalSqrt(thermal_properties, tp) ==
    NRecip(NSqrt(NScale(NScale(tp, Alpha(thermal_properties)), RInt(4))))

\* sqrt_mu_a = alpha; *= tp; sqrt_mut; *= mu_a
SqrtMuA(thermal_properties, layer, tp) ==
    NScale(NSqrt(NScale(tp, Alpha(thermal_properties))), RInt(layer.mu_a))

\* argument = edge; -= z; *= reciprocal_sqrt; += sqrt_mu_a; erf_mut
\* (edge is z0 + d for argument_1 and z0 for argument_2)
Argument(thermal_properties, layer, edge, z, tp) ==
    NErf(NAdd(NScale(ReciprocalSqrt(thermal_properties, tp), RInt(edge - z)),
              SqrtMuA(thermal_properties, layer, tp)))

\* term_4 = argument_1; -= argument_2
Term4(thermal_properties, layer, z, tp) ==
    VSub(Argument(thermal_properties, layer, layer.z0 + layer.d, z, tp),
         Argument(thermal_properties, layer, layer.z0, z, tp))

\* <LargeBeam as Beam>::evaluate_with
LargeBeam_evaluate_with(thermal_properties, layer, z, r, tp) ==
    IF IsZero(tp)
    THEN VMul(Term1(thermal_properties, layer), Term2(layer, z))
    ELSE VMul(VMul(VMul(Term1(thermal_properties, layer), Term2(layer, z)),
                   Term3(thermal_properties, layer, tp)),
              Term4(thermal_properties, layer, z, tp))

\* r_factor = radius; square_mut; /= -4.0; /= alpha; /= tp; exp_mut;
\* r_factor = 1 - r_factor
RFactorOnAxis(radius, thermal_properties, tp) ==
    VSub(VInt(1),
         NExp(NScale(NRecip(tp),
                     RDiv(RDiv(RInt(radius * radius), RInt(-4)),
                          Alpha(thermal_properties)))))

\* a = 2.0; a *= alpha; a *= tp; a.recip_mut(); b = a; b *= radius; a *= r;
\* r_factor = marcum_q(1, a, b); r_factor = 1 - r_factor
RFactorOffAxis(radius, thermal_properties, r, tp) ==
    LET a == NRecip(NScale(tp, RMul(RInt(2), Alpha(thermal_properties))))
    IN  VSub(VInt(1),
             marcum_q(1, NScale(a, RInt(r)), NScale(a, RInt(radius))))

\* FlatTopBeam::evaluate_with whose test at time zero is r >= radius: the
\* edge of the beam is taken to be outside it.
FlatTopBeam_evaluate_with_open(self, thermal_properties, layer, z, r, tp) ==
    IF IsZero(tp) /\ r >= self.radius THEN VZero
    ELSE LET z_factor ==
                 LargeBeam_evaluate_with(thermal_properties, layer, z, r, tp)
         IN  IF IsZero(tp) THEN z_factor
             ELSE VMul(z_factor,
                       IF r = 0
                       THEN RFactorOnAxis(self.radius, thermal_properties, tp)
                       ELSE RFactorOffAxis(self.radius, thermal_properties,
                                           r, tp))

\* <FlatTopBeam as Beam>::evaluate_with
FlatTopBeam_evaluate_with(self, thermal_properties, layer, z, r, tp) ==
    IF IsZero(tp) /\ r > self.radius THEN VZero
    ELSE LET z_factor ==
                 LargeBeam_evaluate_with(thermal_properties, layer, z, r, tp)
         IN  IF IsZero(tp) THEN z_factor
             ELSE VMul(z_factor,
                       IF r = 0
                       THEN RFactorOnAxis(self.radius, thermal_properties, tp)
                       ELSE RFactorOffAxis(self.radius, thermal_properties,
                                           r, tp))

\* Beam::evaluate_with, dispatched on the implementation.
Beam_evaluate_with(beam, thermal_properties, layer, z, r, tp) ==
    IF beam.kind = "LargeBeam"
    THEN LargeBeam_evaluate_with(thermal_properties, layer, z, r, tp)
    ELSE FlatTopBeam_evaluate_with(beam, thermal_properties, layer, z, r, tp)

\* The loop of MultiLayer::evaluate_with from layer i on.
RECURSIVE SumFrom(_, _, _, _, _, _, _, _)
SumFrom(layers, i, sum, beam, thermal_properties, z, r, tp) ==
    IF i > Len(layers) THEN sum
    ELSE SumFrom(layers, i + 1,
                 VAdd(sum, Beam_evaluate_with(beam, thermal_properties,
                                              layers[i], z, r, tp)),
                 beam, thermal_properties, z, r, tp)

\* MultiLayer::evaluate_with whose loop skips the first layer.
MultiLayer_evaluate_with_skip(self, beam, thermal_properties, z, r, tp) ==
    SumFrom(self.layers, 2, VZero, beam, thermal_properties, z, r, tp)

\* MultiLayer::evaluate_with
MultiLayer_evaluate_with(self, beam, thermal_properties, z, r, tp) ==
    SumFrom(self.layers, 1, VZero, beam, thermal_properties, z, r, tp)

\* ------------------------------------------------------------------------
\* Time integration
\* ------------------------------------------------------------------------

\* The times at which a quadrature engine samples its integrand.
Instants == {NInt(0), NInt(1), NInt(2)}

\* Quadrature::integrate(f, epsilon, bounds) of a deterministic engine: the
\* approximate integral and an error estimate.  The closure f is a function
\* on Instants.  Two engines: the trapezoid rule on the two bounds, and the
\* rectangle rule on the upper bound with a coarser error estimate.
Integrate(quadrature, f, epsilon, bounds) ==
    LET a == bounds[1]
        b == bounds[2]
    IN  IF quadrature = "trapezoid"
        THEN <<VScale(VAdd(f[NInt(a)], f[NInt(b)]), RNorm(b - a, 2)), epsilon>>
        ELSE <<VScale(f[NInt(b)], RInt(b - a)), 2 * epsilon>>

\* MultiLayer::temperature_rise that hands the bounds over in reverse.
MultiLayer_temperature_rise_reversed(self, quadrature, beam, thermal_properties, z, r, epsilon, bounds) ==
    Integrate(quadrature,
              [t \in Instants |->
                  MultiLayer_evaluate_with(self, beam, thermal_properties,
                                           z, r, t)],
              epsilon, <<bounds[2], bounds[1]>>)

\* MultiLayer::temperature_rise
MultiLayer_temperature_rise(self, quadrature, beam, thermal_properties, z, r, epsilon, bounds) ==
    Integrate(quadrature,
              [t \in Instants |->
                  MultiLayer_evaluate_with(self, beam, thermal_properties,
                                           z, r, t)],
              epsilon, bounds)

\* temperature_rise
temperature_rise(quadrature, beam, thermal_properties, layer, z, r, epsilon, bounds) ==
    Integrate(quadrature,
              [t \in Instants |->
                  Beam_evaluate_with(beam, thermal_properties, layer,
                                     z, r, t)],
              epsilon, bounds)

\* ------------------------------------------------------------------------
\* State
\* ------------------------------------------------------------------------

VARIABLES
    input,   \* the collection of layers the caller hands to MultiLayer::new
    ml,      \* what MultiLayer::new returned
    pc,      \* "start" before the call of MultiLayer::new, "built" after
    call     \* the call that has just returned, with its arguments and result

vars == <<input, ml, pc, call>>

\* The thicknesses (positive) and the <<mu_a, e0>> pairs of the layers a
\* caller supplies.
Thicknesses == {1, 2}
Materials == {<<1, 2>>, <<2, 1>>}

InputLayers ==
    {Layer(d, z0, m[1], VInt(m[2])) :
        d \in Thicknesses, z0 \in 0..MaxZ0, m \in Materials}

InputsUpTo(n) == UNION {[1..k -> InputLayers] : k \in 0..n}

\* The layers of the collections whose MultiLayer is evaluated.
StackTops == {0, 1, 2}

StackLayers ==
    {Layer(d, z0, m[1], VInt(m[2])) :
        d \in Thicknesses, z0 \in StackTops, m \in Materials}

Stacks == UNION {[1..k -> StackLayers] : k \in 0..MaxStack}

\* The arguments of the evaluation calls.  A beam of radius 1 is
\* evaluated on its axis, on its edge and outside it; the time is zero,
\* vanishing or one.
Beams == {LargeBeam, FlatTopBeam(1)}
Thermals == {ThermalProperties(1, 1, 1), ThermalProperties(2, 1, 1)}
Depths == {0, 1, 2, 3}
Offsets == {0, 1, 2}
Times == {NInt(0), Vanishing, NInt(1)}

\* The arguments of the integration calls.
Quadratures == {"trapezoid", "rectangle"}
Epsilons == {1, 2}
Bounds == {<<0, 1>>, <<1, 2>>}
IntegratedDepths == {1}
IntegratedOffsets == {0, 1}

NoArgs == [quadrature |-> "", epsilon |-> 0, bounds |-> <<0, 0>>]

Call(op, beam, thermal_properties, z, r, tp, quad, result) ==
    [op |-> op, beam |-> beam,
     thermal_properties |-> thermal_properties, z |-> z, r |-> r, tp |-> tp,
     quadrature |-> quad.quadrature, epsilon |-> quad.epsilon,
     bounds |-> quad.bounds, result |-> result]

NoCall ==
    Call("none", LargeBeam, ThermalProperties(1, 1, 1), 0, 0, NInt(0),
         NoArgs, VZero)

\* The caller's collection of layers, before MultiLayer::new is called.
InitNew ==
    /\ input \in InputsUpTo(MaxLayers)
    /\ ml = None
    /\ pc = "start"
    /\ call = NoCall

Init ==
    /\ input \in Stacks
    /\ ml = None
    /\ pc = "start"
    /\ call = NoCall

\* ml = MultiLayer::new(input)
New ==
    /\ pc = "start"
    /\ ml' = MultiLayer_new(input)
    /\ pc' = "built"
    /\ UNCHANGED <<input, call>>

\* The caller holds a MultiLayer and no call is under way.
Ready == pc = "built" /\ ml.some /\ call.op = "none"

\* An evaluate_with that takes the irradiance out of the first layer.
EvaluateWithClearing ==
    /\ Ready
    /\ \E beam \in Beams, th \in Thermals, z \in Depths, r \in Offsets,
          tp \in Times :
          call' = Call("MultiLayer::evaluate_with", beam, th, z, r, tp,
                       NoArgs,
                       MultiLayer_evaluate_with(ml, beam, th, z, r, tp))
    /\ ml' = IF ml.layers = <<>> THEN ml
             ELSE Some([ml.layers EXCEPT ![1].e0 = VZero])
    /\ UNCHANGED <<input, pc>>

\* ml.evaluate_with(precision, beam, thermal_properties, z, r, tp)
EvaluateWith ==
    /\ Ready
    /\ \E beam \in Beams, th \in Thermals, z \in Depths, r \in Offsets,
          tp \in Times :
          call' = Call("MultiLayer::evaluate_with", beam, th, z, r, tp,
                       NoArgs,
                       MultiLayer_evaluate_with(ml, beam, th, z, r, tp))
    /\ UNCHANGED <<input, ml, pc>>

\* ml.temperature_rise(precision, quadrature, beam, thermal_properties,
\*                     z, r, epsilon, bounds)
TemperatureRise ==
    /\ Ready
    /\ \E q \in Quadratures, beam \in Beams, th \in Thermals,
          z \in IntegratedDepths, r \in IntegratedOffsets,
          eps \in Epsilons, bounds \in Bounds :
          call' = Call("MultiLayer::temperature_rise", beam, th, z, r,
                       NInt(0),
                       [quadrature |-> q, epsilon |-> eps, bounds |-> bounds],
                       MultiLayer_temperature_rise(ml, q, beam, th, z, r,
                                                   eps, bounds))
    /\ UNCHANGED <<input, ml, pc>>

\* beam.evaluate_with(precision, thermal_properties, &layer, z, r, tp) by a
\* caller whose collection is the single layer.
BeamEvaluateWith ==
    /\ Ready
    /\ Len(input) = 1
    /\ \E beam \in Beams, th \in Thermals, z \in Depths, r \in Offsets,
          tp \in Times :
          call' = Call("Beam::evaluate_with", beam, th, z, r, tp, NoArgs,
                       Beam_evaluate_with(beam, th, input[1], z, r, tp))
    /\ UNCHANGED <<input, ml, pc>>

\* temperature_rise(precision, quadrature, beam, thermal_properties,
\*                  &layer, z, r, epsilon, bounds) by a caller whose
\* collection is the single layer.
LayerTemperatureRise ==
    /\ Ready
    /\ Len(input) = 1
    /\ \E q \in Quadratures, beam \in Beams, th \in Thermals,
          z \in IntegratedDepths, r \in IntegratedOffsets,
          eps \in Epsilons, bounds \in Bounds :
          call' = Call("temperature_rise", beam, th, z, r, NInt(0),
                       [quadrature |-> q, epsilon |-> eps, bounds |-> bounds],
                       temperature_rise(q, beam, th, input[1], z, r, eps,
                                        bounds))
    /\ UNCHANGED <<input, ml, pc>>

\* The caller has read the result; the next call can be made.
Return ==
    /\ call.op # "none"
    /\ call' = NoCall
    /\ UNCHANGED <<input, ml, pc>>

NextNew == New

Next ==
    \/ New
    \/ EvaluateWith
    \/ TemperatureRise
    \/ BeamEvaluateWith
    \/ LayerTemperatureRise
    \/ Return

\* Construction alone, over collections of up to MaxLayers layers.
SpecNew == InitNew /\ [][NextNew]_vars

\* Construction followed by any sequence of evaluations, over collections
\* of up to MaxStack layers.
Spec == Init /\ [][Next]_vars

\* ------------------------------------------------------------------------
\* Claims about MultiLayer::new
\* ------------------------------------------------------------------------

Indices(s) == 1..Len(s)

\* Two layers of a collection overlap: one starts no deeper than the other,
\* and the other's top lies strictly above the first one's bottom.
Overlap(a, b) == a.z0 <= b.z0 /\ b.z0 < a.z0 + a.d

SomeOverlap(layers) ==
    \E i, j \in Indices(layers) :
        i # j /\ Overlap(layers[i], layers[j])

\* C1: for layers of positive thickness in any order, MultiLayer::new
\* returns None exactly when two of the layers overlap.
C1_NoneIffOverlap ==
    pc = "built" => (ml = None <=> SomeOverlap(input))

\* Three layers, not in order of depth, whose first and last overlap while
\* the layers next to each other in the input do not: rejected.
C1_Witness ==
    /\ pc = "built"
    /\ Len(input) = 3
    /\ input[1].z0 > input[2].z0
    /\ Overlap(input[3], input[1])
    /\ ~Overlap(input[1], input[2]) /\ ~Overlap(input[2], input[1])
    /\ ~Overlap(input[2], input[3]) /\ ~Overlap(input[3], input[2])
    /\ ml = None

\* Accepted cases of C1: exact contact, a gap, the empty collection.
C1_ContactAccepted ==
    /\ pc = "built" /\ ml.some /\ Len(ml.layers) = 3
    /\ \A i \in 2..3 : ml.layers[i].z0 = Bottom(ml.layers[i - 1])

\* Two layers separated by a gap are accepted and the deeper one's e0 is
\* still overwritten.
C2_GapWitness ==
    /\ pc = "built" /\ ml.some /\ Len(ml.layers) = 2
    /\ ml.layers[2].z0 > ml.layers[1].z0 + ml.layers[1].d
    /\ \A i \in Indices(input) : input[i].e0 # ml.layers[2].e0

C1_EmptyAccepted == pc = "built" /\ input = <<>> /\ ml = Some(<<>>)

\* C2: in a MultiLayer, the shallowest layer has the e0 its caller gave it
\* and every later layer has the e0 of the layer above it times
\* exp(-mu_a * d) of the layer above it.
C2_IrradiancePropagated ==
    (pc = "built" /\ ml.some) =>
        /\ \A j \in Indices(input) :
              (\A k \in Indices(input) : input[j].z0 <= input[k].z0)
                  => ml.layers[1].e0 = input[j].e0
        /\ \A i \in 2..Len(ml.layers) :
              ml.layers[i].e0 =
                  VMul(ml.layers[i - 1].e0,
                       VExp(RInt(-(ml.layers[i - 1].mu_a * ml.layers[i - 1].d))))

\* Three layers given out of order, the deeper ones supplied with an e0 of
\* their own.
C2_Witness ==
    /\ pc = "built" /\ ml.some /\ Len(ml.layers) = 3
    /\ input[1].z0 > input[3].z0
    /\ \E i, j \in Indices(input) : input[i].e0 # input[j].e0
    /\ \E i, j \in Indices(input) : input[i].mu_a # input[j].mu_a

Geometry(layer) == [d |-> layer.d, z0 |-> layer.z0, mu_a |-> layer.mu_a]

\* The permutations of 1..n, for every length of input.
AllPermutations ==
    [n \in 0..MaxLayers |->
        {p \in [1..n -> 1..n] : \A i, j \in 1..n : i # j => p[i] # p[j]}]

Permutations(n) == AllPermutations[n]

\* C3: the stored layers are sorted by ascending z0 and are the input
\* layers rearranged, each with its d, z0 and mu_a.
C3_SortedRearrangement ==
    (pc = "built" /\ ml.some) =>
        /\ \A i \in 2..Len(ml.layers) : ml.layers[i - 1].z0 <= ml.layers[i].z0
        /\ Len(ml.layers) = Len(input)
        /\ \E p \in Permutations(Len(input)) :
              \A i \in Indices(input) :
                  Geometry(ml.layers[i]) = Geometry(input[p[i]])

\* Three layers given deepest first are stored shallowest first.
C3_Witness ==
    /\ pc = "built" /\ ml.some /\ Len(input) = 3
    /\ input[1].z0 > input[2].z0 /\ input[2].z0 > input[3].z0
    /\ ml.layers[1].z0 = input[3].z0

Reorder(s, p) == [i \in Indices(s) |-> s[p[i]]]

\* C10: MultiLayer::new returns the same result for every ordering of its
\* input.
C10_OrderIndependent ==
    pc = "built" =>
        \A p \in Permutations(Len(input)) :
            MultiLayer_new(Reorder(input, p)) = ml

\* Three layers accepted from an input that is not in order of depth and
\* whose first layer is not the shallowest one.
C10_Witness ==
    /\ pc = "built" /\ ml.some /\ Len(input) = 3
    /\ input[1].z0 > input[2].z0
    /\ input[1].e0 # ml.layers[1].e0

\* ------------------------------------------------------------------------
\* Claims about evaluation
\* ------------------------------------------------------------------------

\* The sum of the contributions of the first n layers, last layer first.
RECURSIVE Contributions(_, _, _, _, _, _, _)
Contributions(layers, n, beam, thermal_properties, z, r, tp) ==
    IF n = 0 THEN VZero
    ELSE VAdd(Beam_evaluate_with(beam, thermal_properties, layers[n], z, r, tp),
              Contributions(layers, n - 1, beam, thermal_properties, z, r, tp))

\* C4: MultiLayer::evaluate_with returns the sum over the stored layers of
\* beam.evaluate_with on the layer; for a MultiLayer built from one layer
\* that is the beam's value on that layer, for an empty one it is zero.
C4_Additive ==
    call.op = "MultiLayer::evaluate_with" =>
        /\ call.result =
               Contributions(ml.layers, Len(ml.layers), call.beam,
                             call.thermal_properties, call.z, call.r, call.tp)
        /\ Len(input) = 1 =>
               call.result =
                   Beam_evaluate_with(call.beam, call.thermal_properties,
                                      input[1], call.z, call.r, call.tp)
        /\ Len(input) = 0 => call.result = VZero

\* A MultiLayer of two layers evaluated at a positive time, where both
\* layers contribute and the contributions differ.
C4_Witness ==
    /\ call.op = "MultiLayer::evaluate_with"
    /\ Len(ml.layers) = 2
    /\ call.tp = NInt(1)
    /\ LET one == Beam_evaluate_with(call.beam, call.thermal_properties,
                                      ml.layers[1], call.z, call.r, call.tp)
           two == Beam_evaluate_with(call.beam, call.thermal_properties,
                                      ml.layers[2], call.z, call.r, call.tp)
       IN  one # VZero /\ two # VZero /\ one # two

\* C5: at time zero FlatTopBeam::evaluate_with returns the LargeBeam value
\* when r <= radius and zero when r > radius.
C5_FlatTopAtTimeZero ==
    (/\ call.op = "Beam::evaluate_with"
     /\ call.beam.kind = "FlatTopBeam"
     /\ IsZero(call.tp)) =>
        call.result =
            IF call.r <= call.beam.radius
            THEN LargeBeam_evaluate_with(call.thermal_properties, input[1],
                                         call.z, call.r, call.tp)
            ELSE VZero

\* A flat-top beam evaluated at time zero on its very edge.
C5_Witness ==
    /\ call.op = "Beam::evaluate_with"
    /\ call.beam.kind = "FlatTopBeam"
    /\ IsZero(call.tp)
    /\ call.r = call.beam.radius
    /\ call.result # VZero

\* At time zero outside the beam the value is zero.
C5_OutsideWitness ==
    /\ call.op = "Beam::evaluate_with"
    /\ call.beam.kind = "FlatTopBeam"
    /\ IsZero(call.tp)
    /\ call.r > call.beam.radius
    /\ call.result = VZero

\* C6: for a deterministic quadrature engine, MultiLayer::temperature_rise
\* on the MultiLayer built from one layer and temperature_rise on that layer
\* return the same (value, error estimate).
C6_SameTemperatureRise ==
    /\ (call.op = "MultiLayer::temperature_rise" /\ Len(input) = 1) =>
           call.result =
               temperature_rise(call.quadrature, call.beam,
                                call.thermal_properties, input[1], call.z,
                                call.r, call.epsilon, call.bounds)
    /\ call.op = "temperature_rise" =>
           call.result =
               MultiLayer_temperature_rise(ml, call.quadrature, call.beam,
                                           call.thermal_properties, call.z,
                                           call.r, call.epsilon, call.bounds)

\* The MultiLayer of a single layer integrated by the trapezoid rule from
\* time zero, with a value that is not zero.
C6_Witness ==
    /\ call.op = "MultiLayer::temperature_rise"
    /\ Len(input) = 1
    /\ call.quadrature = "trapezoid"
    /\ call.bounds = <<0, 1>>
    /\ call.result[1] # VZero

\* Two stored layers in exact contact with the same absorption coefficient,
\* and the single layer they make up.
InContact(layers) ==
    /\ Len(layers) = 2
    /\ layers[2].z0 = layers[1].z0 + layers[1].d
    /\ layers[2].mu_a = layers[1].mu_a

Merged(layers) ==
    Layer(layers[1].d + layers[2].d, layers[1].z0, layers[1].mu_a,
          layers[1].e0)

\* C7: a MultiLayer of two layers in exact contact with the same mu_a
\* evaluates, for any beam and any point with t >= 0, to the value of the
\* beam on the merged layer.
C7_MergedLayers ==
    (call.op = "MultiLayer::evaluate_with" /\ InContact(ml.layers)) =>
        call.result =
            Beam_evaluate_with(call.beam, call.thermal_properties,
                               Merged(ml.layers), call.z, call.r, call.tp)

\* The same at every time but zero: there the two layers do make up the
\* merged one.
C7_MergedLayersAfterZero ==
    (/\ call.op = "MultiLayer::evaluate_with"
     /\ InContact(ml.layers)
     /\ ~IsZero(call.tp)) =>
        call.result =
            Beam_evaluate_with(call.beam, call.thermal_properties,
                               Merged(ml.layers), call.z, call.r, call.tp)

\* C8: the value of LargeBeam and of FlatTopBeam as t tends to 0 from above
\* is the value at t = 0.  Stated where the value does not go through
\* marcum_q, whose limit the source does not give: LargeBeam, and
\* FlatTopBeam on its axis.
C8_ContinuousAtZero ==
    (/\ call.op = "Beam::evaluate_with"
     /\ call.tp = Vanishing
     /\ (call.beam.kind = "LargeBeam" \/ call.r = 0)) =>
        call.result =
            Beam_evaluate_with(call.beam, call.thermal_properties, input[1],
                               call.z, call.r, NInt(0))

\* On the two faces of the layer the limit is the value at zero.
C8_ContinuousOnFaces ==
    (/\ call.op = "Beam::evaluate_with"
     /\ call.tp = Vanishing
     /\ (call.beam.kind = "LargeBeam" \/ call.r = 0)
     /\ call.z \in {input[1].z0, input[1].z0 + input[1].d}) =>
        call.result =
            Beam_evaluate_with(call.beam, call.thermal_properties, input[1],
                               call.z, call.r, NInt(0))

\* The stored layers do not overlap and carry the propagated irradiance.
WellFormed(layers) ==
    \A i \in 2..Len(layers) :
        /\ layers[i].z0 >= layers[i - 1].z0 + layers[i - 1].d
        /\ layers[i].e0 =
               VMul(layers[i - 1].e0,
                    VExp(RInt(-(layers[i - 1].mu_a * layers[i - 1].d))))

\* C9: once MultiLayer::new has returned, no call of evaluate_with or
\* temperature_rise changes the MultiLayer, whose layers stay free of
\* overlap and keep the propagated irradiance.
C9_Immutable ==
    /\ [][pc = "built" => (ml' = ml /\ pc' = pc)]_vars
    /\ [](pc = "built" /\ ml.some => WellFormed(ml.layers))

\* A call has returned on a MultiLayer of two layers.
C9_Witness ==
    /\ pc = "built"
    /\ call.op = "MultiLayer::temperature_rise"
    /\ Len(ml.layers) = 2

====
